---- MODULE Spec2Model ----
(***************************************************************************)
(* Model of the sample-sheet notebook 03_run_nfcore_rnaseq_with_nfquilt:   *)
(* cell 3 (parameters), cell 4 (manifest build loop), cell 5 (DataFrame),  *)
(* cell 6 (to_csv) and cell 7 (Package.set / Package.push).                *)
(*                                                                         *)
(* Python strings are modelled as sequences of one-character strings, so   *)
(* that `in`, `+` and str.replace are computed rather than assumed.        *)
(***************************************************************************)
EXTENDS Integers, Sequences, FiniteSets, TLC

\* ---------------------------------------------------------------- bounds

\* Longest listing of package identifiers handed to the loop.
MaxListing == 3

\* Number of whole runs of the notebook (the first run and its re-runs).
MaxRuns == 2

\* ------------------------------------------------- Python string operators

\* a + b
Cat(a, b) == a \o b

\* sub in s
Contains(sub, s) ==
    \E k \in 0..(Len(s) - Len(sub)) : SubSeq(s, k + 1, k + Len(sub)) = sub

\* s.replace(old, new): every non-overlapping occurrence, left to right
RECURSIVE Replace(_, _, _)
Replace(s, old, new) ==
    IF Len(s) < Len(old) THEN s
    ELSE IF SubSeq(s, 1, Len(old)) = old
         THEN new \o Replace(SubSeq(s, Len(old) + 1, Len(s)), old, new)
         ELSE <<Head(s)>> \o Replace(Tail(s), old, new)

\* ------------------------------------------------ literals of the notebook

RegDefault ==
    \* "s3://quilt-example-bucket"
    <<"s","3",":","/","/","q","u","i","l","t","-","e","x","a","m","p","l","e","-","b","u","c","k","e","t">>

BatchDefault ==
    \* "ccle/20190225_PRJNA523380"
    <<"c","c","l","e","/","2","0","1","9","0","2","2","5","_","P","R","J","N","A","5","2","3","3","8","0">>

StripLiteral ==
    \* "ccle/20190225_PRJNA523380_"
    <<"c","c","l","e","/","2","0","1","9","0","2","2","5","_","P","R","J","N","A","5","2","3","3","8","0","_">>

FwdTag ==
    \* "_1.fastq.gz"
    <<"_","1",".","f","a","s","t","q",".","g","z">>

RevTag ==
    \* "_2.fastq.gz"
    <<"_","2",".","f","a","s","t","q",".","g","z">>

Sep ==
    \* "__"
    <<"_","_">>

Slash ==
    \* "/"
    <<"/">>

Underscore ==
    \* "_"
    <<"_">>

Auto ==
    \* "auto"
    <<"a","u","t","o">>

outpath ==
    \* "~/data/nfcore"
    <<"~","/","d","a","t","a","/","n","f","c","o","r","e">>

CclePrefix ==
    \* "ccle/"
    <<"c","c","l","e","/">>

SheetSuffix ==
    \* "__samplesheet.csv"
    <<"_","_","s","a","m","p","l","e","s","h","e","e","t",".","c","s","v">>

pname ==
    \* "ccle/20190225_PRJNA523380_nfcore_rnaseq"
    <<"c","c","l","e","/","2","0","1","9","0","2","2","5","_","P","R","J","N","A","5","2","3","3","8","0","_","n","f","c","o","r","e","_","r","n","a","s","e","q">>

PushRegistry ==
    \* "s3://quilt-example-bucket"
    <<"s","3",":","/","/","q","u","i","l","t","-","e","x","a","m","p","l","e","-","b","u","c","k","e","t">>

\* the metadata key read by the loop
CellLine == "CellLine"

\* --------------------------------------- inputs: parameters and identifiers

RegBkt ==
    \* "s3://bkt"
    <<"s","3",":","/","/","b","k","t">>

BatchB1 ==
    \* "proj/b1"
    <<"p","r","o","j","/","b","1">>

P1 ==
    \* "ccle/20190225_PRJNA523380_s1"
    <<"c","c","l","e","/","2","0","1","9","0","2","2","5","_","P","R","J","N","A","5","2","3","3","8","0","_","s","1">>

P2 ==
    \* "ccle/20190225_PRJNA523380_s2"
    <<"c","c","l","e","/","2","0","1","9","0","2","2","5","_","P","R","J","N","A","5","2","3","3","8","0","_","s","2">>

PD ==
    \* "ccle/20190225_PRJNA523380_ccle/20190225_PRJNA523380_s1"
    <<"c","c","l","e","/","2","0","1","9","0","2","2","5","_","P","R","J","N","A","5","2","3","3","8","0","_","c","c","l","e","/","2","0","1","9","0","2","2","5","_","P","R","J","N","A","5","2","3","3","8","0","_","s","1">>

PX ==
    \* "proj/b1_s1"
    <<"p","r","o","j","/","b","1","_","s","1">>

HELA ==
    \* "HELA"
    <<"H","E","L","A">>

A549 ==
    \* "A549"
    <<"A","5","4","9">>

F_s1_1 ==
    \* "s1_1.fastq.gz"
    <<"s","1","_","1",".","f","a","s","t","q",".","g","z">>

F_s1_2 ==
    \* "s1_2.fastq.gz"
    <<"s","1","_","2",".","f","a","s","t","q",".","g","z">>

F_s1b_1 ==
    \* "s1b_1.fastq.gz"
    <<"s","1","b","_","1",".","f","a","s","t","q",".","g","z">>

F_s2_1 ==
    \* "s2_1.fastq.gz"
    <<"s","2","_","1",".","f","a","s","t","q",".","g","z">>

F_s2_2 ==
    \* "s2_2.fastq.gz"
    <<"s","2","_","2",".","f","a","s","t","q",".","g","z">>

F_d_1 ==
    \* "d_1.fastq.gz"
    <<"d","_","1",".","f","a","s","t","q",".","g","z">>

F_d_2 ==
    \* "d_2.fastq.gz"
    <<"d","_","2",".","f","a","s","t","q",".","g","z">>

F_readme ==
    \* "README.md"
    <<"R","E","A","D","M","E",".","m","d">>

\* ------------------------------------------------------- the input universe

Registries == {RegDefault, RegBkt}

Batches == {BatchDefault, BatchB1}

\* identifiers a listing can hold; pname is the package cell 7 pushes
Identifiers == {P1, P2, PD, PX, pname}

RECURSIVE SeqsUpTo(_, _)
SeqsUpTo(S, n) ==
    IF n = 0 THEN {<<>>}
    ELSE LET shorter == SeqsUpTo(S, n - 1)
         IN  shorter \cup {Append(q, x) : q \in shorter, x \in S}

\* a listing names each package once
Listings ==
    { q \in SeqsUpTo(Identifiers, MaxListing) :
        \A j, k \in 1..Len(q) : j # k => q[j] # q[k] }

\* a package of the registry: pkg.meta, list(pkg), and the staged objects
Pkg(m, fs) == [exists |-> TRUE, meta |-> m, files |-> fs, objects |-> <<>>]

Absent == [exists |-> FALSE, meta |-> {}, files |-> <<>>, objects |-> <<>>]

Meta(cell) == {<<CellLine, cell>>}

\* contents each identifier can have in a registry before the first run
Contents(id) ==
    IF id = P1 THEN { Pkg(Meta(HELA), <<F_s1_1, F_s1_2>>),
                      Pkg(Meta(HELA), <<F_s1_1, F_s1b_1, F_s1_2>>) }
    ELSE IF id = P2 THEN { Pkg(Meta(A549), <<F_readme, F_s2_1, F_s2_2>>),
                           Pkg(Meta(A549), <<F_readme, F_s2_2>>),
                           Pkg(Meta(A549), <<F_s2_1>>) }
    ELSE IF id = PD THEN { Pkg(Meta(HELA), <<F_d_2, F_d_1>>) }
    ELSE IF id = PX THEN { Pkg(Meta(HELA), <<F_s1_1, F_s1_2>>) }
    ELSE { Absent,
           Pkg({}, <<F_readme>>),
           Pkg(Meta(HELA), <<F_s1_1, F_s1_2>>) }

\* P1, P2 and pname vary; PD and PX each have one content
RegistryContents ==
    { [id \in Identifiers |->
          IF id = P1 THEN a
          ELSE IF id = P2 THEN b
          ELSE IF id = pname THEN n
          ELSE CHOOSE c \in Contents(id) : TRUE]
      : a \in Contents(P1), b \in Contents(P2), n \in Contents(pname) }

\* every registry holds the same packages before the first run
Stores == { [r \in Registries |-> c] : c \in RegistryContents }

\* --------------------------------------------------------------- the state

VARIABLES
    registry,      \* cell 3: registry
    batch,         \* cell 3: batch
    packages,      \* the listing the loop of cell 4 iterates
    store,         \* the registries: address -> identifier -> package
    fs,            \* the local filesystem: path -> file
    pc,            \* the cell that runs next, "done" or "failed"
    i,             \* position of the loop of cell 4 in packages
    samples,       \* cell 4: samples
    fastq1,        \* cell 4: fastq1
    fastq2,        \* cell 4: fastq2
    origin,        \* listing position each entry of samples/fastq1/fastq2 came from
    sample_sheet,  \* cell 5: sample_sheet
    browsed,       \* identifiers Package.browse was called with, in call order
    calls,         \* arguments of to_csv, Package.set and Package.push in this run
    error,         \* the exception that stopped the run, "" when none
    run,           \* 1 for the first run, 2 for its re-run, ...
    first_sheet,   \* the manifest the first run built
    created        \* identifiers the run's push created in `registry`

vars == <<registry, batch, packages, store, fs, pc, i, samples, fastq1, fastq2,
          origin, sample_sheet, browsed, calls, error, run, first_sheet, created>>

\* ------------------------------------------------ expressions of the cells

\* a filter that tests the batch name alone (`if batch:`)
SelectedTruthy(b, p) == Len(b) > 0

\* cell 4: `batch in p`
Selected(b, p) == Contains(b, p)

\* cell 4: p.replace("ccle/20190225_PRJNA523380_", "")
Stripped(p) == Replace(p, StripLiteral, <<>>)

HasKey(m, key) == \E kv \in m : kv[1] = key

Get(m, key) == (CHOOSE kv \in m : kv[1] = key)[2]

\* cell 4: pkg.meta["CellLine"] + "__" + p.replace(...)
SampleId(m, p) == Cat(Cat(Get(m, CellLine), Sep), Stripped(p))

\* cell 4: registry + "/" + batch + "_" + p.replace(...) + "/" + file
Location(reg, b, p, file) ==
    Cat(Cat(Cat(Cat(Cat(Cat(reg, Slash), b), Underscore), Stripped(p)), Slash), file)

\* cell 4: the files of pkg_files, in order, whose name contains tag
Tagged(pkg_files, tag) == SelectSeq(pkg_files, LAMBDA file : Contains(tag, file))

\* cell 4: what the inner loop appends to fastq1 (tag "_1.fastq.gz") or fastq2
Locations(reg, b, p, pkg_files, tag) ==
    LET hit == Tagged(pkg_files, tag)
    IN  [k \in 1..Len(hit) |-> Location(reg, b, p, hit[k])]

\* cell 5: pd.DataFrame needs all columns to have the same length
SameLength(s, f1, f2) == Len(s) = Len(f1) /\ Len(s) = Len(f2)

\* a frame whose rows come out last-appended first
DataFrameReversed(s, f1, f2) ==
    [k \in 1..Len(s) |->
        [sample |-> s[Len(s) + 1 - k], fastq_1 |-> f1[Len(s) + 1 - k],
         fastq_2 |-> f2[Len(s) + 1 - k], strandedness |-> Auto]]

\* a frame keyed by sample: a later row with the same sample replaces the earlier
DataFrameKeyed(s, f1, f2) ==
    LET keep == SelectSeq([k \in 1..Len(s) |-> k],
                          LAMBDA k : \A later \in (k + 1)..Len(s) : s[later] # s[k])
    IN  [n \in 1..Len(keep) |->
            [sample |-> s[keep[n]], fastq_1 |-> f1[keep[n]],
             fastq_2 |-> f2[keep[n]], strandedness |-> Auto]]

\* cell 5: pd.DataFrame({...}) followed by insert(..., "strandedness", "auto")
DataFrame(s, f1, f2) ==
    [k \in 1..Len(s) |->
        [sample |-> s[k], fastq_1 |-> f1[k], fastq_2 |-> f2[k], strandedness |-> Auto]]

\* cell 6: outpath + "/" + batch.replace("ccle/", "") + "__samplesheet.csv"
CsvPath(b) ==
    Cat(Cat(Cat(outpath, Slash), Replace(b, CclePrefix, <<>>)), SheetSuffix)

\* cell 7: batch.replace("ccle/", "") + "__samplesheet.csv"
LogicalKey(b) == Cat(Replace(b, CclePrefix, <<>>), SheetSuffix)

NoFile == [exists |-> FALSE, rows |-> <<>>]

NoSheet == [defined |-> FALSE, rows |-> <<>>]

NoCalls == [to_csv |-> <<>>, set |-> <<>>, push |-> <<>>]

NoOrigin == [samples |-> <<>>, fastq1 |-> <<>>, fastq2 |-> <<>>]

Paths == {CsvPath(b) : b \in Batches}

\* k copies of x
Repeat(x, k) == [j \in 1..k |-> x]

\* ------------------------------------------------------------------- Init

Init ==
    /\ registry \in Registries
    /\ batch \in Batches
    /\ packages \in Listings
    /\ store \in Stores
    /\ fs = [path \in Paths |-> NoFile]
    /\ pc = "cell4"
    /\ i = 1
    /\ samples = <<>>
    /\ fastq1 = <<>>
    /\ fastq2 = <<>>
    /\ origin = NoOrigin
    /\ sample_sheet = NoSheet
    /\ browsed = <<>>
    /\ calls = NoCalls
    /\ error = ""
    /\ run = 1
    /\ first_sheet = NoSheet
    /\ created = {}

\* ------------------------------------------------------------ cell 4: loop

InLoop == pc = "cell4" /\ i <= Len(packages)

\* `if batch in p` is false: next identifier
LoopSkip ==
    /\ InLoop
    /\ ~Selected(batch, packages[i])
    /\ i' = i + 1
    /\ UNCHANGED <<registry, batch, packages, store, fs, pc, samples, fastq1, fastq2,
                   origin, sample_sheet, browsed, calls, error, run, first_sheet, created>>

\* a loop that catches the exception of browse and goes on (`except: continue`)
BrowseFailSwallowed ==
    /\ InLoop
    /\ Selected(batch, packages[i])
    /\ browsed' = Append(browsed, packages[i])
    /\ error' = "RegistryAccessError:browse"
    /\ i' = i + 1
    /\ UNCHANGED <<registry, batch, packages, store, fs, pc, samples, fastq1, fastq2,
                   origin, sample_sheet, calls, run, first_sheet, created>>

\* quilt3.Package.browse raises: the exception leaves the cell
BrowseFail ==
    /\ InLoop
    /\ Selected(batch, packages[i])
    /\ browsed' = Append(browsed, packages[i])
    /\ pc' = "failed"
    /\ error' = "RegistryAccessError:browse"
    /\ UNCHANGED <<registry, batch, packages, store, fs, i, samples, fastq1, fastq2,
                   origin, sample_sheet, calls, run, first_sheet, created>>

\* browse returns, pkg.meta has no "CellLine": KeyError leaves the cell
LoopKeyError ==
    /\ InLoop
    /\ Selected(batch, packages[i])
    /\ LET pkg == store[registry][packages[i]]
       IN  /\ pkg.exists
           /\ ~HasKey(pkg.meta, CellLine)
    /\ browsed' = Append(browsed, packages[i])
    /\ pc' = "failed"
    /\ error' = "KeyError"
    /\ UNCHANGED <<registry, batch, packages, store, fs, i, samples, fastq1, fastq2,
                   origin, sample_sheet, calls, run, first_sheet, created>>

\* the body of the loop for one selected identifier
LoopBody ==
    /\ InLoop
    /\ Selected(batch, packages[i])
    /\ LET p   == packages[i]
           pkg == store[registry][p]
           l1  == Locations(registry, batch, p, pkg.files, FwdTag)
           l2  == Locations(registry, batch, p, pkg.files, RevTag)
       IN  /\ pkg.exists
           /\ HasKey(pkg.meta, CellLine)
           /\ browsed' = Append(browsed, p)
           /\ samples' = Cat(samples, <<SampleId(pkg.meta, p)>>)
           /\ fastq1' = Cat(fastq1, l1)
           /\ fastq2' = Cat(fastq2, l2)
           /\ origin' = [samples |-> Append(origin.samples, i),
                         fastq1  |-> origin.fastq1 \o Repeat(i, Len(l1)),
                         fastq2  |-> origin.fastq2 \o Repeat(i, Len(l2))]
    /\ i' = i + 1
    /\ UNCHANGED <<registry, batch, packages, store, fs, pc, sample_sheet, calls,
                   error, run, first_sheet, created>>

\* ------------------------------------------------------- cell 5: DataFrame

LoopDone == pc = "cell4" /\ i > Len(packages)

CreateSampleSheet ==
    /\ LoopDone
    /\ SameLength(samples, fastq1, fastq2)
    /\ sample_sheet' = [defined |-> TRUE, rows |-> DataFrame(samples, fastq1, fastq2)]
    /\ first_sheet' = IF run = 1 THEN sample_sheet' ELSE first_sheet
    /\ pc' = "cell6"
    /\ UNCHANGED <<registry, batch, packages, store, fs, i, samples, fastq1, fastq2,
                   origin, browsed, calls, error, run, created>>

\* columns of different lengths: pd.DataFrame raises ValueError
CreateSampleSheetError ==
    /\ LoopDone
    /\ ~SameLength(samples, fastq1, fastq2)
    /\ pc' = "failed"
    /\ error' = "ValueError"
    /\ UNCHANGED <<registry, batch, packages, store, fs, i, samples, fastq1, fastq2,
                   origin, sample_sheet, browsed, calls, run, first_sheet, created>>

\* ---------------------------------------------------------- cell 6: to_csv

ToCsv ==
    /\ pc = "cell6"
    /\ fs' = [fs EXCEPT ![CsvPath(batch)] = [exists |-> TRUE, rows |-> sample_sheet.rows]]
    /\ calls' = [calls EXCEPT !.to_csv = Append(@, CsvPath(batch))]
    /\ pc' = "cell7"
    /\ UNCHANGED <<registry, batch, packages, store, i, samples, fastq1, fastq2,
                   origin, sample_sheet, browsed, error, run, first_sheet, created>>

\* the local write fails
ToCsvFail ==
    /\ pc = "cell6"
    /\ calls' = [calls EXCEPT !.to_csv = Append(@, CsvPath(batch))]
    /\ pc' = "failed"
    /\ error' = "OSError"
    /\ UNCHANGED <<registry, batch, packages, store, fs, i, samples, fastq1, fastq2,
                   origin, sample_sheet, browsed, run, first_sheet, created>>

\* ------------------------------------------- cell 7: Package.set and push

\* the package cell 7 builds with p.set(key, path)
Staged(b) ==
    [exists |-> TRUE, meta |-> {}, files |-> <<LogicalKey(b)>>,
     objects |-> <<fs[CsvPath(b)].rows>>]

Push ==
    /\ pc = "cell7"
    /\ store' = [store EXCEPT ![PushRegistry][pname] = Staged(batch)]
    /\ calls' = [calls EXCEPT !.set = Append(@, <<LogicalKey(batch), CsvPath(batch)>>),
                              !.push = Append(@, <<pname, PushRegistry>>)]
    /\ created' = IF PushRegistry = registry /\ ~store[registry][pname].exists
                  THEN created \cup {pname}
                  ELSE created
    /\ pc' = "done"
    /\ UNCHANGED <<registry, batch, packages, fs, i, samples, fastq1, fastq2, origin,
                   sample_sheet, browsed, error, run, first_sheet>>

\* p.push raises: nothing is persisted
PushFail ==
    /\ pc = "cell7"
    /\ calls' = [calls EXCEPT !.set = Append(@, <<LogicalKey(batch), CsvPath(batch)>>),
                              !.push = Append(@, <<pname, PushRegistry>>)]
    /\ pc' = "failed"
    /\ error' = "RegistryAccessError:push"
    /\ UNCHANGED <<registry, batch, packages, store, fs, i, samples, fastq1, fastq2,
                   origin, sample_sheet, browsed, run, first_sheet, created>>

\* ------------------------------------------------- running the notebook again

Range(q) == {q[k] : k \in 1..Len(q)}

InsertAt(q, k, x) == SubSeq(q, 1, k) \o <<x>> \o SubSeq(q, k + 1, Len(q))

\* enumerate known package identifiers: what was listed before, and what the
\* registry has gained since, at any position
Enumerate(listing, new) ==
    IF new \subseteq Range(listing) THEN {listing}
    ELSE {InsertAt(listing, k, x) : k \in 0..Len(listing), x \in new \ Range(listing)}

Rerun ==
    /\ pc = "done"
    /\ run < MaxRuns
    /\ run' = run + 1
    /\ packages' \in Enumerate(packages, created)
    /\ pc' = "cell4"
    /\ i' = 1
    /\ samples' = <<>>
    /\ fastq1' = <<>>
    /\ fastq2' = <<>>
    /\ origin' = NoOrigin
    /\ sample_sheet' = NoSheet
    /\ browsed' = <<>>
    /\ calls' = NoCalls
    /\ UNCHANGED <<registry, batch, store, fs, error, first_sheet, created>>

\* ------------------------------------------------------------ specification

Next ==
    \/ LoopSkip
    \/ LoopBody
    \/ LoopKeyError
    \/ BrowseFail
    \/ CreateSampleSheet
    \/ CreateSampleSheetError
    \/ ToCsv
    \/ ToCsvFail
    \/ Push
    \/ PushFail
    \/ Rerun

Spec == Init /\ [][Next]_vars

\* ------------------------------------------------- vocabulary of the claims

\* number of files of a package whose name contains tag
Count(pkg_files, tag) ==
    Cardinality({k \in 1..Len(pkg_files) : Contains(tag, pkg_files[k])})

\* the file of a package whose name contains tag, when there is exactly one
TheFile(pkg_files, tag) ==
    pkg_files[CHOOSE k \in 1..Len(pkg_files) : Contains(tag, pkg_files[k])]

\* the package an identifier names in the registry being browsed
Source(p) == store[registry][p]

\* exactly one forward and one reverse read, and a CellLine
WellFormed(pkg) ==
    /\ pkg.exists
    /\ \E kv \in pkg.meta : kv[1] = CellLine
    /\ Count(pkg.files, FwdTag) = 1
    /\ Count(pkg.files, RevTag) = 1

\* listing positions whose identifier contains the batch filter
MatchingAt == {j \in 1..Len(packages) : Contains(batch, packages[j])}

\* the identifiers that contain the batch filter, in listing order
Matching == SelectSeq(packages, LAMBDA p : Contains(batch, p))

\* number of matching positions up to j: the row a matching position j lands in
Rank(j) == Cardinality({m \in MatchingAt : m <= j})

AllMatchingWellFormed == \A j \in MatchingAt : WellFormed(Source(packages[j]))

\* the row the loop builds for a well-formed package p
RowOf(p) ==
    LET pkg  == Source(p)
        cell == (CHOOSE kv \in pkg.meta : kv[1] = CellLine)[2]
        dir  == registry \o Slash \o batch \o Underscore \o Replace(p, StripLiteral, <<>>)
    IN  [sample       |-> cell \o Sep \o Replace(p, StripLiteral, <<>>),
         fastq_1      |-> dir \o Slash \o TheFile(pkg.files, FwdTag),
         fastq_2      |-> dir \o Slash \o TheFile(pkg.files, RevTag),
         strandedness |-> Auto]

\* cell 5 has run in this run of the notebook
Built == sample_sheet.defined

\* ------------------------------------------------------------------ claims

\* C2: an identifier that does not contain the batch filter is never browsed
\* and adds nothing to samples, fastq1 or fastq2, so no manifest row comes
\* from it: every browse and every accumulated entry belongs to a listing
\* position whose identifier contains the filter.
C2_NonMatchingContributesNothing ==
    /\ \A k \in 1..Len(browsed) : Contains(batch, browsed[k])
    /\ Len(origin.samples) = Len(samples)
    /\ Len(origin.fastq1) = Len(fastq1)
    /\ Len(origin.fastq2) = Len(fastq2)
    /\ \A k \in 1..Len(samples) : origin.samples[k] \in MatchingAt
    /\ \A k \in 1..Len(fastq1) : origin.fastq1[k] \in MatchingAt
    /\ \A k \in 1..Len(fastq2) : origin.fastq2[k] \in MatchingAt
    /\ Built => Len(sample_sheet.rows) <= Cardinality(MatchingAt)

\* a manifest with a row was built from a listing holding a non-matching identifier
C2_Witness ==
    /\ Built
    /\ Len(sample_sheet.rows) >= 1
    /\ \E j \in 1..Len(packages) : ~Contains(batch, packages[j])

\* C3: when every matching identifier has exactly one forward and one reverse
\* read, the manifest has exactly one row per matching identifier, in the
\* order the matching identifiers have in the listing.
C3_OneRowPerMatchInListingOrder ==
    (Built /\ AllMatchingWellFormed) =>
        /\ Len(sample_sheet.rows) = Len(Matching)
        /\ \A k \in 1..Len(Matching) : sample_sheet.rows[k] = RowOf(Matching[k])

\* three identifiers listed, two of them matching, two rows built
C3_Witness ==
    /\ Built
    /\ AllMatchingWellFormed
    /\ Len(packages) = 3
    /\ Len(Matching) = 2
    /\ Len(sample_sheet.rows) = 2

\* C5: two matching well-formed packages with the same sample id both keep
\* their row, in listing order, each with the locations of its own package.
C5_CollidingSamplesBothPersist ==
    (Built /\ AllMatchingWellFormed) =>
        \A j1, j2 \in MatchingAt :
            (j1 < j2 /\ RowOf(packages[j1]).sample = RowOf(packages[j2]).sample) =>
                /\ Rank(j2) <= Len(sample_sheet.rows)
                /\ Rank(j1) < Rank(j2)
                /\ sample_sheet.rows[Rank(j1)] = RowOf(packages[j1])
                /\ sample_sheet.rows[Rank(j2)] = RowOf(packages[j2])

\* a manifest in which two rows of different packages carry the same sample
C5_Witness ==
    /\ Built
    /\ AllMatchingWellFormed
    /\ \E k1, k2 \in 1..Len(sample_sheet.rows) :
          /\ k1 < k2
          /\ sample_sheet.rows[k1].sample = sample_sheet.rows[k2].sample
          /\ sample_sheet.rows[k1].fastq_1 # sample_sheet.rows[k2].fastq_1

\* C6: once a browse has failed the run has stopped there: the failing
\* identifier was browsed once and is the last one browsed, every identifier
\* browsed precedes it in the listing, no CSV is written and nothing is pushed.
C6_BrowseFailureStopsTheRun ==
    (error = "RegistryAccessError:browse") =>
        /\ pc = "failed"
        /\ i <= Len(packages)
        /\ browsed = SelectSeq(SubSeq(packages, 1, i), LAMBDA p : Contains(batch, p))
        /\ browsed[Len(browsed)] = packages[i]
        /\ calls = NoCalls
        /\ ~Built

\* a browse failed after an earlier one succeeded, with a matching identifier still to come
C6_Witness ==
    /\ error = "RegistryAccessError:browse"
    /\ Len(browsed) >= 2
    /\ \E j \in MatchingAt : j > i
\* the identifier without the batch-name prefix (batch + "_"), as the claim reads it
StripBatchPrefix(p, b) ==
    LET prefix == b \o Underscore
    IN  IF Len(p) >= Len(prefix) /\ SubSeq(p, 1, Len(prefix)) = prefix
        THEN SubSeq(p, Len(prefix) + 1, Len(p))
        ELSE p

\* the row the formula of the claim gives for a well-formed package p
ClaimedRow(p) ==
    LET pkg  == Source(p)
        cell == (CHOOSE kv \in pkg.meta : kv[1] = CellLine)[2]
        dir  == registry \o Slash \o batch \o Underscore \o StripBatchPrefix(p, batch)
    IN  [sample       |-> cell \o Sep \o StripBatchPrefix(p, batch),
         fastq_1      |-> dir \o Slash \o TheFile(pkg.files, FwdTag),
         fastq_2      |-> dir \o Slash \o TheFile(pkg.files, RevTag),
         strandedness |-> Auto]

X_sample ==
    \* "HELA__s1"
    <<"H","E","L","A","_","_","s","1">>

X_fastq_1 ==
    \* "s3://bkt/proj/b1_s1/s1_1.fastq.gz"
    <<"s","3",":","/","/","b","k","t","/","p","r","o","j","/","b","1","_","s","1","/","s","1","_","1",".","f","a","s","t","q",".","g","z">>

X_fastq_2 ==
    \* "s3://bkt/proj/b1_s1/s1_2.fastq.gz"
    <<"s","3",":","/","/","b","k","t","/","p","r","o","j","/","b","1","_","s","1","/","s","1","_","2",".","f","a","s","t","q",".","g","z">>

\* the expected row of the literal fixture
FixtureRow ==
    [sample |-> X_sample, fastq_1 |-> X_fastq_1, fastq_2 |-> X_fastq_2,
     strandedness |-> Auto]

\* the literal fixture alone
C1_FixtureRow ==
    (Built /\ registry = RegBkt /\ batch = BatchB1 /\ packages = <<PX>>
        /\ WellFormed(Source(PX))) =>
        sample_sheet.rows = <<FixtureRow>>

\* C1: the row of a well-formed matching package is CellLine + "__" + stripped
\* identifier, registry + "/" + batch + "_" + stripped identifier + "/" + file,
\* where the stripped identifier is the identifier without the batch-name
\* prefix; registry "s3://bkt", batch "proj/b1", identifier "proj/b1_s1",
\* CellLine "HELA", files s1_1.fastq.gz and s1_2.fastq.gz give the row
\* ("HELA__s1", "s3://bkt/proj/b1_s1/s1_1.fastq.gz",
\*  "s3://bkt/proj/b1_s1/s1_2.fastq.gz", "auto").
C1_RowFollowsBatchPrefixFormula ==
    /\ C1_FixtureRow
    /\ (Built /\ AllMatchingWellFormed) =>
          \A k \in 1..Len(Matching) :
              /\ k <= Len(sample_sheet.rows)
              /\ sample_sheet.rows[k] = ClaimedRow(Matching[k])

\* the loop of cell 4 has run to its end and cell 5 has been entered
LoopEnded == i > Len(packages) /\ pc # "cell4"

\* C4: a browsed package with no forward or no reverse read does not crash
\* the build: once the loop has ended a manifest exists, and the row of that
\* package has an empty location in the column of the missing read.
C4_MissingReadGivesEmptyLocation ==
    LoopEnded =>
        \A k \in 1..Len(origin.samples) :
            LET pkg == Source(packages[origin.samples[k]])
            IN  (Count(pkg.files, FwdTag) = 0 \/ Count(pkg.files, RevTag) = 0) =>
                    /\ error # "ValueError"
                    /\ Built
                    /\ k <= Len(sample_sheet.rows)
                    /\ Count(pkg.files, FwdTag) = 0 => sample_sheet.rows[k].fastq_1 = <<>>
                    /\ Count(pkg.files, RevTag) = 0 => sample_sheet.rows[k].fastq_2 = <<>>

\* C7: the manifest is pushed into the registry the source packages were
\* browsed from, and the file staged in the pushed package is the CSV file
\* that to_csv has just written.
C7_PushedWhereBrowsed ==
    \A k \in 1..Len(calls.push) :
        /\ calls.push[k][2] = registry
        /\ calls.to_csv = <<calls.set[k][2]>>

\* C8: the registry is unchanged while the manifest is built, and no step of
\* the run changes a package the run has browsed.
C8_BrowsedSourcesNeverModified ==
    [][ /\ (pc = "cell4" => store' = store)
        /\ \A k \in 1..Len(browsed) :
              store'[registry][browsed[k]] = store[registry][browsed[k]] ]_vars

\* C9: in a constructed manifest the fastq_1 and fastq_2 of every row come
\* from the package the sample of that row comes from.
C9_RowsComeFromOnePackage ==
    Built =>
        \A k \in 1..Len(samples) :
            /\ origin.fastq1[k] = origin.samples[k]
            /\ origin.fastq2[k] = origin.samples[k]

\* C10: a re-run against the registry the first run left never browses the
\* package the manifest was pushed under, and builds the manifest the first
\* run built.
C10_RerunBuildsTheSameManifest ==
    run >= 2 =>
        /\ \A k \in 1..Len(browsed) : browsed[k] # pname
        /\ Built => sample_sheet = first_sheet

====
